---- MODULE Spec2Model ----
(***************************************************************************)
(* The clinic_management schema of src/main.py as a state machine: the    *)
(* four tables, their AUTO_INCREMENT counters and the unique index on      *)
(* appointments are the state; one action per statement a caller can run   *)
(* against the schema (INSERT, UPDATE of status, DELETE), each guarded by  *)
(* the constraints the DDL declares (FOREIGN KEY, UNIQUE, ON DELETE ...).  *)
(* A constraint violation aborts the statement: the tables are unchanged   *)
(* and the violated constraints are reported in `result`.                  *)
(*                                                                         *)
(* Error names: a FOREIGN KEY violation is reported as "NotFound", a       *)
(* violation of unique_doctor_timeslot as "SlotTaken", a violation of      *)
(* UNIQUE license_number as "ConflictError".  `violated` is the set of     *)
(* constraints the statement violates; it succeeds iff the set is empty.   *)
(***************************************************************************)
EXTENDS Integers, FiniteSets, Sequences, TLC

\* ---------------------------------------------------------------- bounds
MaxPatients == 2
MaxDoctors == 2
MaxLicenses == 2
MaxDate == 1
MaxTime == 1
MaxAppointments == 2
MaxRecords == 1

PatientIds == 1..MaxPatients
DoctorIds == 1..MaxDoctors
Licenses == 1..MaxLicenses
Dates == 1..MaxDate
Times == 1..MaxTime
AppointmentIds == 1..MaxAppointments
RecordIds == 1..MaxRecords
Clients == {"c1", "c2"}

\* ---------------------------------------------------------------- schema
\* medical_records.appointment_id is a nullable INT: 0 stands for SQL NULL
\* (AUTO_INCREMENT ids start at 1).
NULL == 0

\* appointments.status ENUM
StatusEnum == {"Scheduled", "Completed", "Cancelled", "No-show"}

\* appointments.status DEFAULT
DefaultStatus == "Scheduled"

VARIABLES
    patients,                \* set of patient_id
    doctors,                 \* doctor_id -> license_number
    appointments,            \* appointment_id -> row
    medical_records,         \* record_id -> row
    unique_doctor_timeslot,  \* the unique index: set of <<doctor, date, time>>
    next_patient_id,         \* AUTO_INCREMENT counters
    next_doctor_id,
    next_appointment_id,
    next_record_id,
    result,                  \* outcome of the last statement run directly
    calls                    \* per client: a book call in flight or answered

vars == <<patients, doctors, appointments, medical_records,
          unique_doctor_timeslot, next_patient_id, next_doctor_id,
          next_appointment_id, next_record_id, result, calls>>

tables == <<patients, doctors, appointments, medical_records,
            unique_doctor_timeslot, next_patient_id, next_doctor_id,
            next_appointment_id, next_record_id>>

\* ---------------------------------------------------------------- helpers
Restrict(f, S) == [x \in S |-> f[x]]

Extend(f, k, v) == [x \in DOMAIN f \cup {k} |-> IF x = k THEN v ELSE f[x]]

\* The key of an appointments row in unique_doctor_timeslot.
Key(row) == <<row.doctor_id, row.appointment_date, row.appointment_time>>

Outcome(op, violated, rows) == [op |-> op, violated |-> violated, rows |-> rows]

NoCall == [state |-> "idle", args |-> <<>>, violated |-> {}]

\* ------------------------------------------------------------ constraints
\* FOREIGN KEY (patient_id) / (doctor_id): the parent rows must exist.
ForeignKeyMissing(p, d) == p \notin patients \/ d \notin DOMAIN doctors

\* UNIQUE KEY unique_doctor_timeslot (doctor_id, appointment_date,
\* appointment_time): the key of every row, whatever its status.
DuplicateTimeslotNone(d, dt, tm) == FALSE

DuplicateTimeslotNonCancelled(d, dt, tm) ==
    \E a \in DOMAIN appointments :
        /\ Key(appointments[a]) = <<d, dt, tm>>
        /\ appointments[a].status # "Cancelled"

DuplicateTimeslot(d, dt, tm) == <<d, dt, tm>> \in unique_doctor_timeslot

\* license_number VARCHAR(50) UNIQUE NOT NULL
LicenseTakenNoCheck(l) == FALSE

LicenseTaken(l) == \E d \in DOMAIN doctors : doctors[d] = l

\* FOREIGN KEY (appointment_id) of medical_records: NULL or an existing row.
AppointmentMissing(a) == a # NULL /\ a \notin DOMAIN appointments

\* The constraints an INSERT INTO appointments violates.
BookViolations(p, d, dt, tm) ==
    (IF ForeignKeyMissing(p, d) THEN {"NotFound"} ELSE {})
        \cup (IF DuplicateTimeslot(d, dt, tm) THEN {"SlotTaken"} ELSE {})

\* The constraints an INSERT INTO medical_records violates.
RecordViolations(p, d, a) ==
    IF ForeignKeyMissing(p, d) \/ AppointmentMissing(a) THEN {"NotFound"} ELSE {}

\* ---------------------------------------------------------------- cascades
\* appointments: ON DELETE CASCADE from patients and from doctors.
CascadedAppointmentsPatientOnly(gonePatients, goneDoctors) ==
    {a \in DOMAIN appointments : appointments[a].patient_id \in gonePatients}

CascadedAppointments(gonePatients, goneDoctors) ==
    {a \in DOMAIN appointments :
        \/ appointments[a].patient_id \in gonePatients
        \/ appointments[a].doctor_id \in goneDoctors}

\* medical_records: ON DELETE CASCADE from patients and from doctors.
CascadedRecords(gonePatients, goneDoctors) ==
    {r \in DOMAIN medical_records :
        \/ medical_records[r].patient_id \in gonePatients
        \/ medical_records[r].doctor_id \in goneDoctors}

\* medical_records.appointment_id: ON DELETE SET NULL.
OnDeleteNoAction(row, goneAppointments) == row

OnDeleteSetNull(row, goneAppointments) ==
    IF row.appointment_id \in goneAppointments
        THEN [row EXCEPT !.appointment_id = NULL]
        ELSE row

\* The unique index after the rows goneAppointments are deleted.
IndexKeepsDeleted(goneAppointments) == unique_doctor_timeslot

IndexAfterDelete(goneAppointments) ==
    unique_doctor_timeslot \ {Key(appointments[a]) : a \in goneAppointments}

\* Delete the given parent rows and the appointments deleted directly,
\* with every cascade the schema declares.
DeleteRows(gonePatients, goneDoctors, deleted) ==
    LET goneA == deleted \cup CascadedAppointments(gonePatients, goneDoctors)
        goneR == CascadedRecords(gonePatients, goneDoctors)
    IN  /\ appointments' = Restrict(appointments, DOMAIN appointments \ goneA)
        /\ unique_doctor_timeslot' = IndexAfterDelete(goneA)
        /\ medical_records' =
               [r \in DOMAIN medical_records \ goneR |->
                   OnDeleteSetNull(medical_records[r], goneA)]

\* INSERT INTO appointments (patient_id, doctor_id, appointment_date,
\* appointment_time): the row gets the next id and the DEFAULT status, and
\* its key enters the unique index; a violated constraint aborts it.
InsertAppointment(p, d, dt, tm) ==
    IF BookViolations(p, d, dt, tm) = {}
        THEN /\ appointments' =
                    Extend(appointments, next_appointment_id,
                           [patient_id |-> p, doctor_id |-> d,
                            appointment_date |-> dt, appointment_time |-> tm,
                            status |-> DefaultStatus])
             /\ unique_doctor_timeslot' =
                    unique_doctor_timeslot \cup {<<d, dt, tm>>}
             /\ next_appointment_id' = next_appointment_id + 1
        ELSE UNCHANGED <<appointments, unique_doctor_timeslot,
                         next_appointment_id>>

\* UPDATE appointments SET status = s WHERE appointment_id = a: status is an
\* ENUM column, any of its values is accepted whatever the current one.
UpdateStatusFromScheduledOnly(a, s) ==
    IF appointments[a].status = "Scheduled"
        THEN appointments' = [appointments EXCEPT ![a].status = s]
        ELSE UNCHANGED appointments

UpdateStatus(a, s) ==
    appointments' = [appointments EXCEPT ![a].status = s]

\* INSERT INTO medical_records (patient_id, doctor_id, appointment_id).
InsertRecordUnlinked(p, d, a) ==
    IF RecordViolations(p, d, a) = {}
        THEN /\ medical_records' =
                    Extend(medical_records, next_record_id,
                           [patient_id |-> p, doctor_id |-> d,
                            appointment_id |-> NULL])
             /\ next_record_id' = next_record_id + 1
        ELSE UNCHANGED <<medical_records, next_record_id>>

InsertRecord(p, d, a) ==
    IF RecordViolations(p, d, a) = {}
        THEN /\ medical_records' =
                    Extend(medical_records, next_record_id,
                           [patient_id |-> p, doctor_id |-> d,
                            appointment_id |-> a])
             /\ next_record_id' = next_record_id + 1
        ELSE UNCHANGED <<medical_records, next_record_id>>

\* ---------------------------------------------------------------- state
Init ==
    /\ patients = {}
    /\ doctors = <<>>
    /\ appointments = <<>>
    /\ medical_records = <<>>
    /\ unique_doctor_timeslot = {}
    /\ next_patient_id = 1
    /\ next_doctor_id = 1
    /\ next_appointment_id = 1
    /\ next_record_id = 1
    /\ result = Outcome("none", {}, 0)
    /\ calls = [c \in Clients |-> NoCall]

\* ---------------------------------------------------------------- actions
registerPatient ==
    /\ next_patient_id <= MaxPatients
    /\ patients' = patients \cup {next_patient_id}
    /\ next_patient_id' = next_patient_id + 1
    /\ result' = Outcome("registerPatient", {}, 1)
    /\ UNCHANGED <<doctors, appointments, medical_records,
                   unique_doctor_timeslot, next_doctor_id,
                   next_appointment_id, next_record_id, calls>>

registerDoctor(l) ==
    /\ IF LicenseTaken(l)
          THEN /\ result' = Outcome("registerDoctor", {"ConflictError"}, 0)
               /\ UNCHANGED <<doctors, next_doctor_id>>
          ELSE /\ next_doctor_id <= MaxDoctors
               /\ doctors' = Extend(doctors, next_doctor_id, l)
               /\ next_doctor_id' = next_doctor_id + 1
               /\ result' = Outcome("registerDoctor", {}, 1)
    /\ UNCHANGED <<patients, appointments, medical_records,
                   unique_doctor_timeslot, next_patient_id,
                   next_appointment_id, next_record_id, calls>>

deletePatient(p) ==
    /\ IF p \in patients
          THEN /\ patients' = patients \ {p}
               /\ DeleteRows({p}, {}, {})
               /\ result' = Outcome("deletePatient", {}, 1)
          ELSE /\ UNCHANGED <<patients, appointments, medical_records,
                              unique_doctor_timeslot>>
               /\ result' = Outcome("deletePatient", {}, 0)
    /\ UNCHANGED <<doctors, next_patient_id, next_doctor_id,
                   next_appointment_id, next_record_id, calls>>

deleteDoctor(d) ==
    /\ IF d \in DOMAIN doctors
          THEN /\ doctors' = Restrict(doctors, DOMAIN doctors \ {d})
               /\ DeleteRows({}, {d}, {})
               /\ result' = Outcome("deleteDoctor", {}, 1)
          ELSE /\ UNCHANGED <<doctors, appointments, medical_records,
                              unique_doctor_timeslot>>
               /\ result' = Outcome("deleteDoctor", {}, 0)
    /\ UNCHANGED <<patients, next_patient_id, next_doctor_id,
                   next_appointment_id, next_record_id, calls>>

deleteAppointment(a) ==
    /\ IF a \in DOMAIN appointments
          THEN /\ DeleteRows({}, {}, {a})
               /\ result' = Outcome("deleteAppointment", {}, 1)
          ELSE /\ UNCHANGED <<appointments, medical_records,
                              unique_doctor_timeslot>>
               /\ result' = Outcome("deleteAppointment", {}, 0)
    /\ UNCHANGED <<patients, doctors, next_patient_id, next_doctor_id,
                   next_appointment_id, next_record_id, calls>>

book(p, d, dt, tm) ==
    /\ BookViolations(p, d, dt, tm) # {} \/ next_appointment_id <= MaxAppointments
    /\ InsertAppointment(p, d, dt, tm)
    /\ result' = Outcome("book", BookViolations(p, d, dt, tm),
                         IF BookViolations(p, d, dt, tm) = {} THEN 1 ELSE 0)
    /\ UNCHANGED <<patients, doctors, medical_records, next_patient_id,
                   next_doctor_id, next_record_id, calls>>

transition(a, s) ==
    /\ IF a \in DOMAIN appointments
          THEN /\ UpdateStatus(a, s)
               /\ result' = Outcome("transition", {},
                                    IF appointments[a].status = s THEN 0 ELSE 1)
          ELSE /\ UNCHANGED appointments
               /\ result' = Outcome("transition", {}, 0)
    /\ UNCHANGED <<patients, doctors, medical_records,
                   unique_doctor_timeslot, next_patient_id, next_doctor_id,
                   next_appointment_id, next_record_id, calls>>

cancel(a) ==
    /\ IF a \in DOMAIN appointments
          THEN /\ UpdateStatus(a, "Cancelled")
               /\ result' = Outcome("cancel", {},
                                    IF appointments[a].status = "Cancelled"
                                        THEN 0 ELSE 1)
          ELSE /\ UNCHANGED appointments
               /\ result' = Outcome("cancel", {}, 0)
    /\ UNCHANGED <<patients, doctors, medical_records,
                   unique_doctor_timeslot, next_patient_id, next_doctor_id,
                   next_appointment_id, next_record_id, calls>>

insertMedicalRecord(p, d, a) ==
    /\ RecordViolations(p, d, a) # {} \/ next_record_id <= MaxRecords
    /\ InsertRecord(p, d, a)
    /\ result' = Outcome("insertMedicalRecord", RecordViolations(p, d, a),
                         IF RecordViolations(p, d, a) = {} THEN 1 ELSE 0)
    /\ UNCHANGED <<patients, doctors, appointments, unique_doctor_timeslot,
                   next_patient_id, next_doctor_id, next_appointment_id,
                   calls>>

\* A record for appointment a: patient_id and doctor_id are those of the
\* appointments row; with no such row there is nothing to copy and the
\* appointment_id foreign key fails.
createMedicalRecord(a) ==
    /\ IF a \in DOMAIN appointments
          THEN LET p == appointments[a].patient_id
                   d == appointments[a].doctor_id
               IN  /\ RecordViolations(p, d, a) # {} \/ next_record_id <= MaxRecords
                   /\ InsertRecord(p, d, a)
                   /\ result' = Outcome("createMedicalRecord",
                                        RecordViolations(p, d, a),
                                        IF RecordViolations(p, d, a) = {}
                                            THEN 1 ELSE 0)
          ELSE /\ UNCHANGED <<medical_records, next_record_id>>
               /\ result' = Outcome("createMedicalRecord", {"NotFound"}, 0)
    /\ UNCHANGED <<patients, doctors, appointments, unique_doctor_timeslot,
                   next_patient_id, next_doctor_id, next_appointment_id,
                   calls>>

Next ==
    \/ registerPatient
    \/ \E l \in Licenses : registerDoctor(l)
    \/ \E p \in PatientIds : deletePatient(p)
    \/ \E d \in DoctorIds : deleteDoctor(d)
    \/ \E a \in AppointmentIds : deleteAppointment(a)
    \/ \E p \in PatientIds, d \in DoctorIds, dt \in Dates, tm \in Times :
           book(p, d, dt, tm)
    \/ \E a \in AppointmentIds, s \in StatusEnum : transition(a, s)
    \/ \E a \in AppointmentIds : cancel(a)
    \/ \E p \in PatientIds, d \in DoctorIds, a \in AppointmentIds \cup {NULL} :
           insertMedicalRecord(p, d, a)
    \/ \E a \in AppointmentIds : createMedicalRecord(a)

Spec == Init /\ [][Next]_vars

\* ------------------------------------------------- concurrent book calls
\* Two clients each send a book call; the calls overlap in time and the
\* database runs each INSERT as one atomic statement, in either order,
\* possibly with other statements between a call being sent and being run.

\* Both registries populated: the state after MaxPatients registerPatient
\* and MaxDoctors registerDoctor statements with distinct licenses.
InitConc ==
    /\ patients = PatientIds
    /\ doctors = [d \in DoctorIds |-> d]
    /\ appointments = <<>>
    /\ medical_records = <<>>
    /\ unique_doctor_timeslot = {}
    /\ next_patient_id = MaxPatients + 1
    /\ next_doctor_id = MaxDoctors + 1
    /\ next_appointment_id = 1
    /\ next_record_id = 1
    /\ result = Outcome("none", {}, 0)
    /\ calls = [c \in Clients |-> NoCall]

CallBook(c, p, d, dt, tm) ==
    /\ calls[c].state = "idle"
    /\ calls' = [calls EXCEPT ![c] =
                    [state |-> "pending", args |-> <<p, d, dt, tm>>,
                     violated |-> {}]]
    /\ UNCHANGED <<tables, result>>

ExecBook(c) ==
    /\ calls[c].state = "pending"
    /\ LET p == calls[c].args[1]
           d == calls[c].args[2]
           dt == calls[c].args[3]
           tm == calls[c].args[4]
       IN  /\ \/ BookViolations(p, d, dt, tm) # {}
              \/ next_appointment_id <= MaxAppointments
           /\ InsertAppointment(p, d, dt, tm)
           /\ calls' = [calls EXCEPT ![c] =
                           [state |-> "done", args |-> calls[c].args,
                            violated |-> BookViolations(p, d, dt, tm)]]
    /\ UNCHANGED <<patients, doctors, medical_records, next_patient_id,
                   next_doctor_id, next_record_id, result>>

Return(c) ==
    /\ calls[c].state = "done"
    /\ calls' = [calls EXCEPT ![c] = NoCall]
    /\ UNCHANGED <<tables, result>>

NextBook ==
    \/ \E c \in Clients, p \in PatientIds, d \in DoctorIds,
          dt \in Dates, tm \in Times : CallBook(c, p, d, dt, tm)
    \/ \E c \in Clients : ExecBook(c)
    \/ \E c \in Clients : Return(c)

SpecBook == InitConc /\ [][NextBook]_vars

NextConc ==
    \/ \E c \in Clients, p \in PatientIds, d \in DoctorIds,
          dt \in Dates, tm \in Times : CallBook(c, p, d, dt, tm)
    \/ \E c \in Clients : ExecBook(c)
    \/ \E c \in Clients : Return(c)
    \/ \E p \in PatientIds : deletePatient(p)
    \/ \E d \in DoctorIds : deleteDoctor(d)

SpecConc == InitConc /\ [][NextConc]_vars

\* ---------------------------------------------------------------- claims
Rows == DOMAIN appointments

HeldBy(d, dt, tm) == {a \in Rows : Key(appointments[a]) = <<d, dt, tm>>}

Occupying(d, dt, tm) ==
    {a \in HeldBy(d, dt, tm) : appointments[a].status # "Cancelled"}

\* C1: in every reachable state, for every doctor, date and time there is at
\* most one appointment for that slot whose status is not Cancelled.
C1_AtMostOneOccupant ==
    \A d \in DoctorIds, dt \in Dates, tm \in Times :
        Cardinality(Occupying(d, dt, tm)) <= 1

\* Two rows exist, none Cancelled, and the last book was rejected with
\* SlotTaken: a second booking of an occupied slot was attempted.
C1_Witness ==
    /\ result.op = "book"
    /\ "SlotTaken" \in result.violated
    /\ Cardinality(Rows) = 2
    /\ \A a \in Rows : appointments[a].status # "Cancelled"

\* C10: in every reachable state there is at most one appointments row of any
\* status, Cancelled included, for each (doctor_id, appointment_date,
\* appointment_time).
C10_UniqueWhateverStatus ==
    \A a1, a2 \in Rows :
        Key(appointments[a1]) = Key(appointments[a2]) => a1 = a2

\* The only row is Cancelled and the last book was rejected with SlotTaken:
\* an insert for a slot held by a Cancelled row was refused.
C10_Witness ==
    /\ result.op = "book"
    /\ "SlotTaken" \in result.violated
    /\ Cardinality(Rows) = 1
    /\ \A a \in Rows : appointments[a].status = "Cancelled"

\* C2 as stated: a book by an existing patient and doctor fails with SlotTaken
\* when a non-Cancelled appointment holds the slot and succeeds otherwise, in
\* particular when the slot is held only by a Cancelled appointment.
C2_CancelFreesSlot ==
    [][\A p \in PatientIds, d \in DoctorIds, dt \in Dates, tm \in Times :
          (result'.op = "book" /\ ~ForeignKeyMissing(p, d)
              /\ book(p, d, dt, tm)) =>
              IF Occupying(d, dt, tm) # {}
                  THEN "SlotTaken" \in result'.violated
                  ELSE result'.violated = {}]_vars

\* C2 amended: a book by an existing patient and doctor fails with SlotTaken
\* as long as an appointment row of any status, Cancelled included, holds
\* the slot, and succeeds once no row holds it.
C2_SlotBookableOnceRowGone ==
    [][\A p \in PatientIds, d \in DoctorIds, dt \in Dates, tm \in Times :
          (result'.op = "book" /\ ~ForeignKeyMissing(p, d)
              /\ book(p, d, dt, tm)) =>
              IF HeldBy(d, dt, tm) # {}
                  THEN result'.violated = {"SlotTaken"} /\ UNCHANGED tables
                  ELSE /\ result'.violated = {}
                       /\ \E a \in DOMAIN appointments' \ Rows :
                              /\ Key(appointments'[a]) = <<d, dt, tm>>
                              /\ appointments'[a].patient_id = p]_vars

\* Two rows exist, both Cancelled, and the last book was rejected with
\* SlotTaken: rebooking a cancelled slot failed while the row exists.
C2_Witness ==
    /\ result.op = "book"
    /\ result.violated = {"SlotTaken"}
    /\ Cardinality(Rows) = 2
    /\ \A a \in Rows : appointments[a].status = "Cancelled"

\* The appointments and reservations a delete of the given patients and
\* doctors removes, as C4 states it for both versions of the claim.
AppointmentsRemoved(gonePatients, goneDoctors) ==
    LET gone == {a \in Rows : \/ appointments[a].patient_id \in gonePatients
                              \/ appointments[a].doctor_id \in goneDoctors}
    IN  /\ appointments' = Restrict(appointments, Rows \ gone)
        /\ unique_doctor_timeslot' =
               {Key(appointments[a]) : a \in Rows \ gone}

LinkedRecordsSurvive(gonePatients, goneDoctors) ==
    LET gone == {a \in Rows : \/ appointments[a].patient_id \in gonePatients
                              \/ appointments[a].doctor_id \in goneDoctors}
    IN  \A r \in DOMAIN medical_records :
            medical_records[r].appointment_id \in gone =>
                /\ r \in DOMAIN medical_records'
                /\ medical_records'[r].appointment_id = NULL

RecordsOfDeletedRemoved(gonePatients, goneDoctors) ==
    LET gone == {a \in Rows : \/ appointments[a].patient_id \in gonePatients
                              \/ appointments[a].doctor_id \in goneDoctors}
    IN  /\ \A r \in DOMAIN medical_records :
               r \in DOMAIN medical_records' <=>
                   /\ medical_records[r].patient_id \notin gonePatients
                   /\ medical_records[r].doctor_id \notin goneDoctors
        /\ \A r \in DOMAIN medical_records' :
               /\ r \in DOMAIN medical_records
               /\ medical_records'[r].patient_id = medical_records[r].patient_id
               /\ medical_records'[r].doctor_id = medical_records[r].doctor_id
               /\ medical_records'[r].appointment_id =
                      IF medical_records[r].appointment_id \in gone
                          THEN NULL
                          ELSE medical_records[r].appointment_id

\* C4 as stated: deleting a patient or a doctor removes every appointment
\* that references it and its reservation, and every medical record linked
\* to a removed appointment still exists afterwards with appointment_id NULL.
C4_LinkedRecordsNeverDeleted ==
    [][/\ \A p \in PatientIds :
              (result' = Outcome("deletePatient", {}, 1) /\ deletePatient(p)) =>
              AppointmentsRemoved({p}, {}) /\ LinkedRecordsSurvive({p}, {})
       /\ \A d \in DoctorIds :
              (result' = Outcome("deleteDoctor", {}, 1) /\ deleteDoctor(d)) =>
              AppointmentsRemoved({}, {d}) /\ LinkedRecordsSurvive({}, {d})]_vars

\* C4 amended: deleting a patient or a doctor removes every appointment that
\* references it and its reservation, and also every medical record that
\* references the deleted patient or doctor; every other medical record
\* survives unchanged except that its appointment_id is NULL when its
\* appointment was removed (the record is not deleted by the appointment's
\* removal, only by that of its own patient or doctor).
C4_CascadeOnDelete ==
    [][/\ \A p \in PatientIds :
              (result' = Outcome("deletePatient", {}, 1) /\ deletePatient(p)) =>
              AppointmentsRemoved({p}, {}) /\ RecordsOfDeletedRemoved({p}, {})
       /\ \A d \in DoctorIds :
              (result' = Outcome("deleteDoctor", {}, 1) /\ deleteDoctor(d)) =>
              AppointmentsRemoved({}, {d}) /\ RecordsOfDeletedRemoved({}, {d})]_vars

\* A patient was just deleted, the only appointment ever booked is gone, and
\* a medical record of another patient that was inserted with a reference
\* to an appointment (next_record_id counts it) now has appointment_id NULL.
C4_Witness ==
    /\ result = Outcome("deletePatient", {}, 1)
    /\ next_appointment_id = 2
    /\ Rows = {}
    /\ \E r \in DOMAIN medical_records :
           medical_records[r].appointment_id = NULL

C6_LedgerMirrorsNonCancelled ==
    unique_doctor_timeslot =
        {Key(appointments[a]) :
            a \in {x \in Rows : appointments[x].status # "Cancelled"}}

\* C6 amended: a slot is in the unique index if and only if an appointment
\* row of any status, Cancelled included, exists for it, and a book that
\* fails (NotFound or SlotTaken) changes neither the index nor any table.
C6_LedgerMirrorsRows ==
    /\ [](unique_doctor_timeslot = {Key(appointments[a]) : a \in Rows})
    /\ [][\A p \in PatientIds, d \in DoctorIds, dt \in Dates, tm \in Times :
             (result'.op = "book" /\ result'.violated # {}
                 /\ book(p, d, dt, tm)) =>
                 UNCHANGED tables]_vars

\* A book just failed with NotFound while a Cancelled appointment holds a
\* slot of the index and another row has been removed.
C6_Witness ==
    /\ result.op = "book"
    /\ "NotFound" \in result.violated
    /\ unique_doctor_timeslot # {}
    /\ next_appointment_id > Cardinality(Rows) + 1
    /\ \E a \in Rows : appointments[a].status = "Cancelled"

\* C7 as stated: createMedicalRecord on an appointment that exists and is
\* Scheduled, Cancelled or No-show fails (with InvalidState: here, with any
\* error at all) and creates no record.
C7_RequiresCompleted ==
    [][\A a \in AppointmentIds :
          (/\ result'.op = "createMedicalRecord"
           /\ a \in Rows /\ appointments[a].status # "Completed"
           /\ createMedicalRecord(a)) =>
              /\ result'.violated # {}
              /\ UNCHANGED medical_records]_vars

\* C7 amended: createMedicalRecord on an appointment succeeds whenever that
\* appointment exists, whatever its status (no InvalidState), creating one
\* record with the appointment's patient and doctor that references it; when
\* the appointment does not exist it fails (NotFound) and creates no record.
C7_RequiresExistingAppointment ==
    [][\A a \in AppointmentIds :
          (result'.op = "createMedicalRecord" /\ createMedicalRecord(a)) =>
              IF a \in Rows
                  THEN /\ result'.violated = {}
                       /\ \E r \in DOMAIN medical_records' \ DOMAIN medical_records :
                              /\ medical_records' =
                                     Extend(medical_records, r,
                                            [patient_id |-> appointments[a].patient_id,
                                             doctor_id |-> appointments[a].doctor_id,
                                             appointment_id |-> a])
                  ELSE /\ result'.violated = {"NotFound"}
                       /\ UNCHANGED medical_records]_vars

\* A record was just created from an appointment that is Scheduled.
C7_Witness ==
    /\ result = Outcome("createMedicalRecord", {}, 1)
    /\ \E r \in DOMAIN medical_records :
           /\ medical_records[r].appointment_id \in Rows
           /\ appointments[medical_records[r].appointment_id].status = "Scheduled"

\* C9: registering a doctor whose license number is that of a registered
\* doctor fails with ConflictError and leaves the doctors table unchanged.
C9_DuplicateLicenseRejected ==
    [][\A l \in Licenses :
          (/\ result'.op = "registerDoctor"
           /\ \E d \in DOMAIN doctors : doctors[d] = l
           /\ registerDoctor(l)) =>
              /\ result'.violated = {"ConflictError"}
              /\ UNCHANGED <<doctors, next_doctor_id>>]_vars

\* A registration was just refused with ConflictError with a doctor present.
C9_Witness ==
    /\ result = Outcome("registerDoctor", {"ConflictError"}, 0)
    /\ DOMAIN doctors # {}

Done(c) == calls[c].state = "done"

SameSlot(c1, c2) ==
    /\ calls[c1].args[2] = calls[c2].args[2]
    /\ calls[c1].args[3] = calls[c2].args[3]
    /\ calls[c1].args[4] = calls[c2].args[4]

\* C3: of two overlapping book calls for the same (doctor, date, time), run
\* in either order, at most one succeeds, and a call that fails fails with
\* SlotTaken.
C3_ConcurrentBooksExclude ==
    \A c1, c2 \in Clients :
        (c1 # c2 /\ Done(c1) /\ Done(c2) /\ SameSlot(c1, c2)) =>
            /\ ~(calls[c1].violated = {} /\ calls[c2].violated = {})
            /\ calls[c1].violated \in {{}, {"SlotTaken"}}

\* Both calls are answered, for the same slot: one created the appointment,
\* the other got SlotTaken.
C3_Witness ==
    \E c1, c2 \in Clients :
        /\ c1 # c2 /\ Done(c1) /\ Done(c2) /\ SameSlot(c1, c2)
        /\ calls[c1].violated = {}
        /\ calls[c2].violated = {"SlotTaken"}
        /\ Cardinality(Rows) = 1

\* C8: in every reachable state every appointment and every reservation
\* references a patient and a doctor that exist, whatever the interleaving
\* of book calls and cascading deletes; a book whose patient or doctor is
\* absent when it runs fails with NotFound and changes no table.
C8_NoDanglingReference ==
    /\ [](/\ \A a \in Rows : /\ appointments[a].patient_id \in patients
                            /\ appointments[a].doctor_id \in DOMAIN doctors
          /\ \A k \in unique_doctor_timeslot : k[1] \in DOMAIN doctors)
    /\ [][\A c \in Clients :
             (/\ calls[c].state = "pending"
              /\ ForeignKeyMissing(calls[c].args[1], calls[c].args[2])
              /\ ExecBook(c)) =>
                 /\ "NotFound" \in calls'[c].violated
                 /\ UNCHANGED tables]_vars

\* A doctor was deleted while a book call for that doctor was in flight or
\* answered: one client's call for the deleted doctor got NotFound, and the
\* other client's appointment with the remaining doctor is still there.
C8_Witness ==
    /\ result = Outcome("deleteDoctor", {}, 1)
    /\ \E c1, c2 \in Clients :
           /\ Done(c1) /\ Done(c2)
           /\ calls[c1].args[2] \notin DOMAIN doctors
           /\ "NotFound" \in calls[c1].violated
           /\ calls[c2].violated = {}
           /\ Rows # {}

====
